---- MODULE Spec2Model ----
(***************************************************************************)
(* Model of graphics/midpoint_circle.py: the midpoint circle algorithm     *)
(* (get_circle_vectors), its quadrant reflection (_get_circle_quadrants),  *)
(* its interior scan (_get_vectors_inside_circle) and the duck-typed input *)
(* validation (_validate_input, _is_indexable, _is_int).                   *)
(*                                                                         *)
(* One behaviour is one call of one of the module's functions: Init draws  *)
(* the function and its arguments, the actions execute the body, a loop    *)
(* iteration per step, until pc = "done" with either a returned value      *)
(* (result) or a raised exception (raised).                                *)
(***************************************************************************)
EXTENDS Integers, Sequences, FiniteSets

\* Largest integer radius a call is made with.
MaxRadius == 8

----------------------------------------------------------------------------
(* Python values.  The functions are duck typed, so an argument is any     *)
(* Python object; the model keeps the kinds the code's checks tell apart:  *)
(* int, str (a sequence of characters), None and tuple.                    *)

PyInt(n) == [t |-> "int", n |-> n, s |-> <<>>, items |-> <<>>]
PyStr(s) == [t |-> "str", n |-> 0, s |-> s, items |-> <<>>]
PyNone == [t |-> "none", n |-> 0, s |-> <<>>, items |-> <<>>]
PyTuple(items) == [t |-> "tuple", n |-> 0, s |-> <<>>, items |-> items]

Pair(a, b) == PyTuple(<<a, b>>)
IntPair(a, b) == Pair(PyInt(a), PyInt(b))

Digits == {"0", "1", "2", "3", "4", "5", "6", "7", "8", "9"}

\* bool(v): the truth value Python gives a value in `if` and `and`.
Truthy(v) ==
    CASE v.t = "int" -> v.n # 0
      [] v.t = "str" -> Len(v.s) > 0
      [] v.t = "none" -> FALSE
      [] v.t = "tuple" -> Len(v.items) > 0

\* len(v): [err, n]; an object without a length raises TypeError.
PyLen(v) ==
    CASE v.t = "str" -> [err |-> "none", n |-> Len(v.s)]
      [] v.t = "tuple" -> [err |-> "none", n |-> Len(v.items)]
      [] OTHER -> [err |-> "TypeError", n |-> 0]

\* v[i] (i counted from 0): [err, ok]; an object that is not subscriptable
\* raises TypeError, an index past the end IndexError.
Subscript(v, i) ==
    CASE v.t = "str" ->
            IF i < Len(v.s) THEN [err |-> "none", ok |-> PyStr(<<v.s[i + 1]>>)]
            ELSE [err |-> "IndexError", ok |-> PyNone]
      [] v.t = "tuple" ->
            IF i < Len(v.items) THEN [err |-> "none", ok |-> v.items[i + 1]]
            ELSE [err |-> "IndexError", ok |-> PyNone]
      [] OTHER -> [err |-> "TypeError", ok |-> PyNone]

\* int(v): "ok" when the conversion succeeds, else the exception's name.
IntConversion(v) ==
    CASE v.t = "int" -> "ok"
      [] v.t = "str" ->
            IF Len(v.s) > 0 /\ \A i \in 1..Len(v.s) : v.s[i] \in Digits
            THEN "ok" ELSE "ValueError"
      [] OTHER -> "TypeError"

\* a + b, a - b and -a on ints; any other operand kind is a TypeError
\* (str - int, str + int and -str are unsupported).
IsInt(v) == v.t = "int"

----------------------------------------------------------------------------
(* The validation layer.                                                   *)

\* _is_int without its `except ValueError`, taken to answer True.
_is_int_uncaught(arg) == IntConversion(arg) # "TypeError"

\* try: int(arg); return True / except TypeError, ValueError: return False
_is_int(arg) == IntConversion(arg) = "ok"

\* try: return arg[0] and len(arg) == 2 / except TypeError, IndexError: False.
\* `a and b` is a when a is falsy, so the value is arg[0] itself when arg[0]
\* is falsy; the callers test the value's truth.
_is_indexable(arg) ==
    LET first == Subscript(arg, 0) IN
    IF first.err \in {"TypeError", "IndexError"} THEN FALSE
    ELSE IF ~Truthy(first.ok) THEN FALSE
    ELSE IF PyLen(arg).err = "TypeError" THEN FALSE
    ELSE PyLen(arg).n = 2

\* "True", or the name of the exception raised.
_validate_input(arg) ==
    IF _is_indexable(arg)
    THEN IF _is_int(Subscript(arg, 0).ok) /\ _is_int(Subscript(arg, 1).ok)
         THEN "True"
         ELSE "ValueError"
    ELSE "TypeError"

----------------------------------------------------------------------------
(* _get_circle_quadrants, a loop-free function: [raised, value].           *)

Returned(v) == [raised |-> "none", value |-> v]
Raised(e) == [raised |-> e, value |-> <<>>]

\* _get_circle_quadrants with quadrant IV reflected as quadrant II is.
_get_circle_quadrants_sign(center, current_point) ==
    IF _validate_input(center) # "True" THEN Raised(_validate_input(center))
    ELSE IF _validate_input(current_point) # "True"
    THEN Raised(_validate_input(current_point))
    ELSE LET c0 == Subscript(center, 0).ok
             c1 == Subscript(center, 1).ok
             p0 == Subscript(current_point, 0).ok
             p1 == Subscript(current_point, 1).ok
         IN  IF ~(IsInt(c0) /\ IsInt(c1) /\ IsInt(p0) /\ IsInt(p1))
             THEN Raised("TypeError")
             ELSE Returned(<< <<c0.n - p0.n, c1.n + p1.n>>,
                              <<c0.n - p1.n, c1.n - p0.n>>,
                              <<c0.n + p0.n, c1.n - p1.n>>,
                              <<c0.n + p1.n, c1.n - p0.n>> >>)

_get_circle_quadrants(center, current_point) ==
    IF _validate_input(center) # "True" THEN Raised(_validate_input(center))
    ELSE IF _validate_input(current_point) # "True"
    THEN Raised(_validate_input(current_point))
    ELSE LET c0 == Subscript(center, 0).ok
             c1 == Subscript(center, 1).ok
             p0 == Subscript(current_point, 0).ok
             p1 == Subscript(current_point, 1).ok
         IN  IF ~(IsInt(c0) /\ IsInt(c1) /\ IsInt(p0) /\ IsInt(p1))
             THEN Raised("TypeError")
             ELSE Returned(<< <<c0.n - p0.n, c1.n + p1.n>>,
                              <<c0.n - p1.n, c1.n - p0.n>>,
                              <<c0.n + p0.n, c1.n - p1.n>>,
                              <<c0.n + p1.n, c1.n + p0.n>> >>)

----------------------------------------------------------------------------
(* The arguments the functions are called with.                            *)

Centers ==
    { IntPair(50, 50), IntPair(25, 25), IntPair(42, 42), IntPair(-3, 4),
      IntPair(5, 0), IntPair(0, 5),
      PyInt(10), PyNone, PyTuple(<<>>), PyTuple(<<PyInt(7)>>),
      PyTuple(<<PyInt(42), PyInt(25), PyInt(53)>>),
      PyTuple(<<PyInt(0), PyInt(25), PyInt(53)>>),
      Pair(PyStr(<<"a">>), PyInt(10)), Pair(PyInt(7), PyStr(<<"c">>)),
      Pair(PyInt(0), PyStr(<<"c">>)), Pair(PyNone, PyInt(5)),
      Pair(PyStr(<<"7">>), PyInt(5)), Pair(PyInt(5), PyStr(<<"7">>)),
      PyStr(<<"4", "2">>), PyStr(<<"a", "b">>) }

Radii ==
    { PyInt(r) : r \in -1..MaxRadius } \cup
    { PyStr(<<"c">>), PyStr(<<"2">>), PyNone }

CurrentPoints ==
    { IntPair(-2, 0), IntPair(-1, 0), IntPair(-1, 2), IntPair(0, 3),
      Pair(PyInt(-1), PyStr(<<"c">>)), PyInt(3) }

Functions ==
    { "get_circle_vectors", "_get_circle_quadrants",
      "_get_vectors_inside_circle", "_validate_input" }

----------------------------------------------------------------------------
VARIABLES
    call,            \* the call: [fn, center, radius, fill, current_point]
    pc,              \* "call", "loop", "inside", "scan", "done"
    radius,          \* get_circle_vectors' radius, reassigned by its loop
    x, y, error,     \* get_circle_vectors' locals
    circle_vectors,  \* get_circle_vectors' list
    inside,          \* _get_vectors_inside_circle's locals:
                     \*   [radius, x, y, circle_vectors]
    returned,        \* "none", "list" (a list returned), "True"
    result,          \* the list returned
    raised           \* "none", or the exception that left the call

vars == <<call, pc, radius, x, y, error, circle_vectors, inside, returned,
          result, raised>>

NoInside == [radius |-> 0, x |-> 0, y |-> 0, circle_vectors |-> <<>>]

Init ==
    /\ \E fn \in Functions, c \in Centers :
          \/ /\ fn = "get_circle_vectors"
             /\ \E r \in Radii, f \in BOOLEAN :
                   call = [fn |-> fn, center |-> c, radius |-> r, fill |-> f,
                           current_point |-> PyNone]
          \/ /\ fn = "_get_vectors_inside_circle"
             /\ \E r \in Radii :
                   call = [fn |-> fn, center |-> c, radius |-> r,
                           fill |-> FALSE, current_point |-> PyNone]
          \/ /\ fn = "_get_circle_quadrants"
             /\ \E p \in CurrentPoints :
                   call = [fn |-> fn, center |-> c, radius |-> PyNone,
                           fill |-> FALSE, current_point |-> p]
          \/ /\ fn = "_validate_input"
             /\ call = [fn |-> fn, center |-> c, radius |-> PyNone,
                        fill |-> FALSE, current_point |-> PyNone]
    /\ pc = "call"
    /\ radius = call.radius
    /\ x = 0
    /\ y = 0
    /\ error = 0
    /\ circle_vectors = <<>>
    /\ inside = NoInside
    /\ returned = "none"
    /\ result = <<>>
    /\ raised = "none"

\* An exception leaves the call.
Raise(e) ==
    /\ pc' = "done"
    /\ raised' = e
    /\ UNCHANGED <<returned, result>>

\* The called function returns the list v.
ReturnList(v) ==
    /\ pc' = "done"
    /\ returned' = "list"
    /\ result' = v
    /\ UNCHANGED raised

----------------------------------------------------------------------------
(* get_circle_vectors                                                      *)

\* Advance with `error += y * 2 - 1` on line 44.
Advance_y_minus(x0, y0, error0) ==
    LET r == error0
        up == r <= y0
        y1 == IF up THEN y0 + 1 ELSE y0
        e1 == IF up THEN error0 + (y1 * 2 - 1) ELSE error0
        right == r > x0 \/ e1 > y1
        x1 == IF right THEN x0 + 1 ELSE x0
        e2 == IF right THEN e1 + (x1 * 2 + 1) ELSE e1
    IN  [x |-> x1, y |-> y1, error |-> e2, radius |-> r]

\* Advance with `error += x * 2 - 1` on line 47.
Advance_x_minus(x0, y0, error0) ==
    LET r == error0
        up == r <= y0
        y1 == IF up THEN y0 + 1 ELSE y0
        e1 == IF up THEN error0 + (y1 * 2 + 1) ELSE error0
        right == r > x0 \/ e1 > y1
        x1 == IF right THEN x0 + 1 ELSE x0
        e2 == IF right THEN e1 + (x1 * 2 - 1) ELSE e1
    IN  [x |-> x1, y |-> y1, error |-> e2, radius |-> r]

\* Lines 41-47, one pass of the loop body after the quadrants are appended:
\* the new [x, y, error, radius].
Advance(x0, y0, error0) ==
    LET r == error0
        up == r <= y0
        y1 == IF up THEN y0 + 1 ELSE y0
        e1 == IF up THEN error0 + (y1 * 2 + 1) ELSE error0
        right == r > x0 \/ e1 > y1
        x1 == IF right THEN x0 + 1 ELSE x0
        e2 == IF right THEN e1 + (x1 * 2 + 1) ELSE e1
    IN  [x |-> x1, y |-> y1, error |-> e2, radius |-> r]

\* Lines 34-38: the guard and the initial state of the stepping.
gcv_Enter ==
    /\ pc = "call"
    /\ call.fn = "get_circle_vectors"
    /\ IF _validate_input(call.center) # "True"
       THEN /\ Raise(_validate_input(call.center))
            /\ UNCHANGED <<x, y, error>>
       ELSE IF ~_is_int(radius)
       THEN /\ ReturnList(circle_vectors)
            /\ UNCHANGED <<x, y, error>>
       ELSE IF ~IsInt(radius)
       THEN /\ Raise("TypeError")
            /\ UNCHANGED <<x, y, error>>
       ELSE /\ x' = -radius.n
            /\ y' = 0
            /\ error' = 2 - 2 * radius.n
            /\ pc' = "loop"
            /\ UNCHANGED <<returned, result, raised>>
    /\ UNCHANGED <<call, radius, circle_vectors, inside>>

\* Lines 39-47: one iteration of `while x < 0`.
gcv_Step ==
    /\ pc = "loop"
    /\ x < 0
    /\ LET q == _get_circle_quadrants(call.center, IntPair(x, y))
           n == Advance(x, y, error)
       IN  IF q.raised # "none"
           THEN /\ Raise(q.raised)
                /\ UNCHANGED <<radius, x, y, error, circle_vectors>>
           ELSE /\ circle_vectors' = circle_vectors \o q.value
                /\ radius' = PyInt(n.radius)
                /\ x' = n.x
                /\ y' = n.y
                /\ error' = n.error
                /\ UNCHANGED <<pc, returned, result, raised>>
    /\ UNCHANGED <<call, inside>>

\* Lines 39, 48-50: the loop's exit; with fill the interior scan is called
\* with the current radius, else the list is returned.
gcv_Exit ==
    /\ pc = "loop"
    /\ ~(x < 0)
    /\ IF call.fill
       THEN /\ pc' = "inside"
            /\ UNCHANGED <<returned, result, raised>>
       ELSE ReturnList(circle_vectors)
    /\ UNCHANGED <<call, radius, x, y, error, circle_vectors, inside>>

----------------------------------------------------------------------------
(* _get_vectors_inside_circle, called directly or from line 49             *)

\* Line 107 with `<` for `<=`.
InsideCircle_strict(px, py, r) == px * px + py * py < r * r

\* Line 107.
InsideCircle(px, py, r) == px * px + py * py <= r * r

\* The scan returns v: to the caller of the module, or into line 49's extend.
ivc_ReturnTo(v) ==
    IF call.fn = "get_circle_vectors"
    THEN /\ circle_vectors' = circle_vectors \o v
         /\ ReturnList(circle_vectors \o v)
    ELSE /\ ReturnList(v)
         /\ UNCHANGED circle_vectors

\* Lines 102-104: the guard and the boundary range.
ivc_Enter ==
    /\ \/ pc = "call" /\ call.fn = "_get_vectors_inside_circle"
       \/ pc = "inside"
    /\ IF _validate_input(call.center) # "True"
       THEN /\ Raise(_validate_input(call.center))
            /\ UNCHANGED <<inside, circle_vectors>>
       ELSE IF ~_is_int(radius)
       THEN /\ ivc_ReturnTo(<<>>)
            /\ UNCHANGED inside
       ELSE IF ~IsInt(radius)
       THEN /\ Raise("TypeError")
            /\ UNCHANGED <<inside, circle_vectors>>
       ELSE /\ inside' = [radius |-> radius.n, x |-> -radius.n,
                          y |-> -radius.n, circle_vectors |-> <<>>]
            /\ pc' = "scan"
            /\ UNCHANGED <<returned, result, raised, circle_vectors>>
    /\ UNCHANGED <<call, radius, x, y, error>>

\* Lines 105-108: one cell (x, y) of the two nested loops over the boundary.
ivc_Step ==
    /\ pc = "scan"
    /\ inside.y <= inside.radius
    /\ LET c0 == Subscript(call.center, 0).ok
           c1 == Subscript(call.center, 1).ok
           hit == InsideCircle(inside.x, inside.y, inside.radius)
           last == inside.x >= inside.radius
       IN  IF hit /\ ~(IsInt(c0) /\ IsInt(c1))
           THEN /\ Raise("TypeError")
                /\ UNCHANGED inside
           ELSE /\ inside' =
                      [inside EXCEPT
                         !.circle_vectors =
                            IF hit
                            THEN Append(@, <<c0.n + inside.x, c1.n + inside.y>>)
                            ELSE @,
                         !.x = IF last THEN -inside.radius ELSE @ + 1,
                         !.y = IF last THEN @ + 1 ELSE @]
                /\ UNCHANGED <<pc, returned, result, raised>>
    /\ UNCHANGED <<call, radius, x, y, error, circle_vectors>>

\* Lines 105, 109: the boundary is exhausted, the list is returned.
ivc_Return ==
    /\ pc = "scan"
    /\ ~(inside.y <= inside.radius)
    /\ ivc_ReturnTo(inside.circle_vectors)
    /\ UNCHANGED <<call, radius, x, y, error, inside>>

----------------------------------------------------------------------------
(* Direct calls of the loop-free functions                                 *)

quadrants_Call ==
    /\ pc = "call"
    /\ call.fn = "_get_circle_quadrants"
    /\ LET q == _get_circle_quadrants(call.center, call.current_point)
       IN  IF q.raised # "none" THEN Raise(q.raised) ELSE ReturnList(q.value)
    /\ UNCHANGED <<call, radius, x, y, error, circle_vectors, inside>>

validate_Call ==
    /\ pc = "call"
    /\ call.fn = "_validate_input"
    /\ IF _validate_input(call.center) # "True"
       THEN Raise(_validate_input(call.center))
       ELSE /\ pc' = "done"
            /\ returned' = "True"
            /\ UNCHANGED <<result, raised>>
    /\ UNCHANGED <<call, radius, x, y, error, circle_vectors, inside>>

Next ==
    \/ gcv_Enter
    \/ gcv_Step
    \/ gcv_Exit
    \/ ivc_Enter
    \/ ivc_Step
    \/ ivc_Return
    \/ quadrants_Call
    \/ validate_Call

Spec == Init /\ [][Next]_vars

\* The interpreter runs the call to its end.
FairSpec == Spec /\ WF_vars(Next)

----------------------------------------------------------------------------
(* Vocabulary of the properties                                            *)

Done == pc = "done"

\* A tuple of two ints.
IsIntPair(c) ==
    /\ c.t = "tuple"
    /\ Len(c.items) = 2
    /\ IsInt(c.items[1])
    /\ IsInt(c.items[2])

\* An indexable object (tuple or str) of exactly two elements.
TwoElements(c) == c.t \in {"tuple", "str"} /\ PyLen(c).n = 2

\* Both elements of a two-element object convert with int().
BothIntConvertible(c) ==
    /\ IntConversion(Subscript(c, 0).ok) = "ok"
    /\ IntConversion(Subscript(c, 1).ok) = "ok"

\* A center the validator accepts and whose coordinates are integers.
ValidCenter == _validate_input(call.center) = "True" /\ IsIntPair(call.center)

\* The caller passed an integer radius r >= 0.
NaturalRadius == IsInt(call.radius) /\ call.radius.n >= 0

cx == call.center.items[1].n
cy == call.center.items[2].n
r0 == call.radius.n

\* Squared distance of a point from the center.
Dist2(p) == (p[1] - cx) * (p[1] - cx) + (p[2] - cy) * (p[2] - cy)

\* The states (x, y) the stepping of section 4.4 visits from (vx, vy, ve).
RECURSIVE VisitedFrom(_, _, _)
VisitedFrom(vx, vy, ve) ==
    IF ~(vx < 0) THEN <<>>
    ELSE LET ny == IF ve <= vy THEN vy + 1 ELSE vy
             e1 == IF ve <= vy THEN ve + 2 * ny + 1 ELSE ve
             nx == IF ve > vx \/ e1 > ny THEN vx + 1 ELSE vx
             e2 == IF ve > vx \/ e1 > ny THEN e1 + 2 * nx + 1 ELSE e1
         IN  << <<vx, vy>> >> \o VisitedFrom(nx, ny, e2)

Visited(r) == VisitedFrom(-r, 0, 2 - 2 * r)

\* The four reflections of each visited state, in step order.
RECURSIVE Reflections(_, _, _)
Reflections(ax, ay, steps) ==
    IF steps = <<>> THEN <<>>
    ELSE LET px == Head(steps)[1]
             py == Head(steps)[2]
         IN  << <<ax - px, ay + py>>, <<ax - py, ay - px>>,
                <<ax + px, ay - py>>, <<ax + py, ay + px>> >>
             \o Reflections(ax, ay, Tail(steps))

Fixture_50_50_2 ==
    << <<52, 50>>, <<50, 52>>, <<48, 50>>, <<50, 48>>,
       <<52, 51>>, <<49, 52>>, <<48, 49>>, <<51, 48>>,
       <<51, 52>>, <<48, 51>>, <<49, 48>>, <<52, 49>> >>

Fixture_25_25_1 == << <<26, 25>>, <<25, 26>>, <<24, 25>>, <<25, 24>> >>

PerimeterCall ==
    /\ call.fn = "get_circle_vectors"
    /\ ValidCenter
    /\ NaturalRadius

----------------------------------------------------------------------------
C2_FillWithinCallerRadius ==
    (pc \in {"scan", "done"} /\ PerimeterCall /\ call.fill) =>
        \A i \in 1..Len(inside.circle_vectors) :
            Dist2(inside.circle_vectors[i]) <= r0 * r0

\* C3: the validator accepts every two-element indexable argument whose
\* elements are integer-convertible, a zero first element included:
\* _validate_input returns True, and get_circle_vectors raises nothing for a
\* pair of ints and an integer radius r >= 0.
C3_ZeroFirstElementAccepted ==
    (Done /\ TwoElements(call.center) /\ BothIntConvertible(call.center)) =>
        /\ call.fn = "_validate_input" => returned = "True"
        /\ (call.fn = "get_circle_vectors" /\ IsIntPair(call.center)
                /\ NaturalRadius) =>
               raised = "none"

\* A radius int() does not convert, with a center the validator accepts.
BadRadiusCall ==
    /\ call.fn = "get_circle_vectors"
    /\ _validate_input(call.center) = "True"
    /\ IntConversion(call.radius) # "ok"

\* C4 as stated: a radius that is not integer-convertible, with a valid
\* center, makes get_circle_vectors raise ValueError.
C4_BadRadiusRaises == (Done /\ BadRadiusCall) => raised = "ValueError"

\* C4 as amended: a radius that is not integer-convertible, with a valid
\* center, makes get_circle_vectors return the empty list, whatever fill is,
\* and raise nothing.
C4_BadRadiusReturnsEmpty ==
    (Done /\ BadRadiusCall) =>
        /\ raised = "none"
        /\ returned = "list"
        /\ result = <<>>

C4_Witness ==
    /\ Done
    /\ BadRadiusCall
    /\ call.fill
    /\ call.radius = PyStr(<<"c">>)
    /\ returned = "list"

NoPointProduced ==
    /\ circle_vectors = <<>>
    /\ inside.circle_vectors = <<>>
    /\ result = <<>>

\* C5: in get_circle_vectors, _get_circle_quadrants and
\* _get_vectors_inside_circle a center that is not indexable or has not
\* exactly two elements raises TypeError, a two-element center with an
\* element that is not integer-convertible raises ValueError, whatever the
\* radius is, and no point is produced before.
C5_CenterErrorKinds ==
    (Done /\ call.fn # "_validate_input") =>
        /\ ~TwoElements(call.center) =>
               raised = "TypeError" /\ NoPointProduced
        /\ (TwoElements(call.center) /\ ~BothIntConvertible(call.center)) =>
               raised = "ValueError" /\ NoPointProduced

InsideCall ==
    /\ call.fn = "_get_vectors_inside_circle"
    /\ ValidCenter
    /\ NaturalRadius

\* Row-major order of two points: dy ascending, dx ascending within a dy.
RowMajorBefore(p, q) == p[2] < q[2] \/ (p[2] = q[2] /\ p[1] < q[1])

Stepping == pc = "loop" /\ PerimeterCall

\* C8: with a valid center and an integer radius r >= 1 every perimeter
\* point lies within one grid unit of the circle:
\* (r - 1)^2 < dx^2 + dy^2 < (r + 1)^2.
C8_PerimeterNearCircle ==
    (Stepping /\ r0 >= 1) =>
        \A i \in 1..Len(circle_vectors) :
            /\ (r0 - 1) * (r0 - 1) < Dist2(circle_vectors[i])
            /\ Dist2(circle_vectors[i]) < (r0 + 1) * (r0 + 1)

C8_Witness ==
    /\ Stepping
    /\ r0 = MaxRadius
    /\ x = 0
    /\ Len(circle_vectors) > 4 * MaxRadius

\* Iterations the loop has made.
Iterations == Len(circle_vectors) \div 4

\* C9: for an integer radius r >= 0 the stepping loop terminates: an
\* iteration raises x or y by one and lowers neither, x stays in [-r, 0] and
\* y in [0, r], and the loop ends with x = 0 after at least r and at most 2r
\* iterations.
C9_LoopTerminates ==
    /\ [](Stepping =>
            /\ x \in -r0..0
            /\ y \in 0..r0
            /\ Iterations <= 2 * r0
            /\ ~(x < 0) => (x = 0 /\ Iterations >= r0))
    /\ [][(Stepping /\ x < 0) =>
            /\ pc' = "loop"
            /\ Iterations' = Iterations + 1
            /\ x' \in {x, x + 1}
            /\ y' \in {y, y + 1}
            /\ <<x', y'>> # <<x, y>>]_vars
    /\ (Stepping ~> (pc # "loop" /\ x = 0))

C9_Witness ==
    /\ Stepping
    /\ r0 = MaxRadius
    /\ x = 0
    /\ Iterations > r0
    /\ Iterations < 2 * r0

\* C10: with a valid center, an integer radius r >= 0 and fill = false, the
\* points get_circle_vectors returns are pairwise distinct.
C10_PerimeterDistinct ==
    (Done /\ PerimeterCall /\ ~call.fill) =>
        /\ returned = "list"
        /\ \A i, j \in 1..Len(result) : result[i] = result[j] => i = j

C10_Witness ==
    /\ Done
    /\ PerimeterCall
    /\ ~call.fill
    /\ r0 = MaxRadius
    /\ Len(result) >= 4 * MaxRadius

====
